---- MODULE Spec2Model ----
(***************************************************************************)
(* The Operation store of pkg/scd/store/cockroach/operations.go: the       *)
(* tables scd_operations, scd_cells_operations and scd_subscriptions, the  *)
(* SQL statements the file issues against them, and the four exported      *)
(* calls GetOperation, DeleteOperation, UpsertOperation, SearchOperations. *)
(***************************************************************************)
EXTENDS Integers, Sequences, FiniteSets, TLC

\* ---------------------------------------------------------------- domains
IDs == {"op1", "op2"}
Owners == {"alice", "bob"}
SubIDs == {"s1", "s2"}
CellIDs == {10, 11}
\* the callers (API-layer requests in flight)
Callers == {"c1", "c2"}
\* the clock (transaction_timestamp()) is read at most MaxTime times
MaxTime == 3

\* SQL NULL / a Go nil pointer is the empty tuple, a value v is <<v>>
Null == <<>>
Some(v) == <<v>>

\* OperationState values; "" is the zero value of a row read back from the
\* table (the state is not among the persisted fields)
OperationStateAccepted == "Accepted"
OperationStateActivated == "Activated"
OperationStateEnded == "Ended"
States == {OperationStateAccepted, OperationStateActivated, OperationStateEnded}

\* error codes
OK == "OK"
NotFound == "NotFound"
AlreadyExists == "AlreadyExists"
VersionMismatch == "VersionMismatch"
PermissionDenied == "PermissionDenied"
BadRequest == "BadRequest"
ErrMissingOVNs == "MissingOVNs"
Internal == "Internal"

VARIABLES
    ops,        \* scd_operations: id -> row, for the ids that have a row
    cellsOps,   \* scd_cells_operations: set of [cell_id, operation_id]
    subs,       \* scd_subscriptions: id -> row, for the ids that have a row
    now,        \* the last value transaction_timestamp() returned
    pc,         \* per caller: "idle" | "tx" (in a transaction) | "done"
    req,        \* per caller: the call in progress or just completed
    ret,        \* per caller: what that call returned
    snap,       \* per caller: the tables its transaction began with
    observed    \* per id: the Version its latest successful upsert returned

vars == <<ops, cellsOps, subs, now, pc, req, ret, snap, observed>>

\* the three tables as one value, as seen through the Queryable s.q
DB == [ops |-> ops, cells |-> cellsOps, subs |-> subs]

\* ------------------------------------------------------- pure helpers
\* ascending sequence of a finite set of integers (order of a CellUnion)
RECURSIVE SortedSeq(_)
SortedSeq(S) ==
    IF S = {} THEN <<>>
    ELSE LET m == CHOOSE x \in S : \A y \in S : x <= y
         IN <<m>> \o SortedSeq(S \ {m})

\* ascending sequence of a finite set of ids (row order of a result set)
RECURSIVE IdSeq(_)
IdSeq(S) ==
    IF S = {} THEN <<>>
    ELSE LET m == CHOOSE x \in S : \A y \in S : (x = "op1" \/ x = y \/ y # "op1")
         IN <<m>> \o IdSeq(S \ {m})

Range(s) == {s[i] : i \in DOMAIN s}

\* scdmodels.NewOVNFromTime(updatedAt, id)
NewOVNFromTime(t, id) == <<t, id>>

\* scdmodels.Version.Empty / Version.Matches
VersionEmpty(v) == v = 0
VersionMatches(v, w) == v = w

\* SQL three-valued comparisons and COALESCE(x, true)
SqlGe(a, b) == IF a = Null \/ b = Null THEN Null ELSE Some(a[1] >= b[1])
SqlLe(a, b) == IF a = Null \/ b = Null THEN Null ELSE Some(a[1] <= b[1])
CoalesceTrue(x) == IF x = Null THEN TRUE ELSE x[1]

\* ------------------------------------------------- rows and statements
\* rows.Scan of one scd_operations row, and the OVN derived from updated_at
ScanOperation(id, row) ==
    [ID |-> id, Owner |-> row.owner, Version |-> row.version,
     AltitudeLower |-> row.altitude_lower, AltitudeUpper |-> row.altitude_upper,
     StartTime |-> row.starts_at, EndTime |-> row.ends_at,
     SubscriptionID |-> row.subscription_id,
     OVN |-> NewOVNFromTime(row.updated_at, id),
     Cells |-> {}, State |-> ""]

\* fetchOperations: the payload for the sequence of row ids a query yields
fetchOperations(d, rowids) ==
    [i \in DOMAIN rowids |-> ScanOperation(rowids[i], d.ops[rowids[i]])]

\* fetchOperationByID: <<>> stands for sql.ErrNoRows, <<o>> for the row found
fetchOperationByID(d, id) ==
    fetchOperations(d, IF id \in DOMAIN d.ops THEN <<id>> ELSE <<>>)

\* variant: the row upsert writes Version 1 whatever the stored Version
upsertOperationsQuery_VersionOne(d, o, ts) ==
    LET row == [owner |-> o.Owner, version |-> 1,
                altitude_lower |-> o.AltitudeLower, altitude_upper |-> o.AltitudeUpper,
                starts_at |-> o.StartTime, ends_at |-> o.EndTime,
                subscription_id |-> o.SubscriptionID, updated_at |-> ts]
    IN [d EXCEPT !.ops = [i \in DOMAIN d.ops \cup {o.ID} |->
                             IF i = o.ID THEN row ELSE d.ops[i]]]

\* variant: an update leaves the updated_at of an existing row as it was
upsertOperationsQuery_KeepsTimestamp(d, o, ts) ==
    LET v == IF o.ID \in DOMAIN d.ops THEN d.ops[o.ID].version ELSE 0
        row == [owner |-> o.Owner, version |-> v + 1,
                altitude_lower |-> o.AltitudeLower, altitude_upper |-> o.AltitudeUpper,
                starts_at |-> o.StartTime, ends_at |-> o.EndTime,
                subscription_id |-> o.SubscriptionID,
                updated_at |-> IF o.ID \in DOMAIN d.ops THEN d.ops[o.ID].updated_at ELSE ts]
    IN [d EXCEPT !.ops = [i \in DOMAIN d.ops \cup {o.ID} |->
                             IF i = o.ID THEN row ELSE d.ops[i]]]

\* UPSERT INTO scd_operations ... COALESCE((SELECT version from v), 0) + 1
upsertOperationsQuery(d, o, ts) ==
    LET v == IF o.ID \in DOMAIN d.ops THEN d.ops[o.ID].version ELSE 0
        row == [owner |-> o.Owner, version |-> v + 1,
                altitude_lower |-> o.AltitudeLower, altitude_upper |-> o.AltitudeUpper,
                starts_at |-> o.StartTime, ends_at |-> o.EndTime,
                subscription_id |-> o.SubscriptionID, updated_at |-> ts]
    IN [d EXCEPT !.ops = [i \in DOMAIN d.ops \cup {o.ID} |->
                             IF i = o.ID THEN row ELSE d.ops[i]]]

\* UPSERT INTO scd_cells_operations (cell_id, cell_level, operation_id)
upsertCellsForOperationQuery(d, cid, id) ==
    [d EXCEPT !.cells = @ \cup {[cell_id |-> cid, operation_id |-> id]}]

\* variant: the left-over delete is not restricted to the Operation written
deleteLeftOverCellsForOperationQuery_AnyOperation(d, cids, id) ==
    [d EXCEPT !.cells = {r \in @ : ~(r.cell_id \notin cids)}]

\* variant: the left-over cells are not deleted
deleteLeftOverCellsForOperationQuery_Skipped(d, cids, id) == d

\* DELETE FROM scd_cells_operations WHERE cell_id != ALL($1) AND operation_id = $2
deleteLeftOverCellsForOperationQuery(d, cids, id) ==
    [d EXCEPT !.cells = {r \in @ : ~(r.cell_id \notin cids /\ r.operation_id = id)}]

\* the Subscription reader: Subscriptions whose cells intersect cids
fetchSubscriptionsForNotification(d, cids) ==
    {s \in DOMAIN d.subs : d.subs[s].cells \cap cids # {}}

\* variant: no cascade from scd_operations to scd_cells_operations
OnDeleteCascade_None(d) == d

\* scd_cells_operations.operation_id REFERENCES scd_operations ON DELETE CASCADE
OnDeleteCascade(d) ==
    [d EXCEPT !.cells = {r \in @ : r.operation_id \in DOMAIN d.ops}]

\* DELETE FROM scd_operations WHERE id = $1 AND owner = $2
deleteQuery(d, id, owner) ==
    OnDeleteCascade(
        [d EXCEPT !.ops = [i \in {j \in DOMAIN d.ops :
                                    ~(j = id /\ d.ops[j].owner = owner)} |-> d.ops[i]]])

\* variant: the implicit Subscription is deleted without the count of the
\* Operations that still reference it
deleteImplicitSubscriptionQuery_NoCount(d, sid, owner) ==
    LET gone(s) == s = sid /\ d.subs[s].owner = owner /\ d.subs[s].implicit
    IN [d EXCEPT !.subs = [s \in {t \in DOMAIN d.subs : ~gone(t)} |-> d.subs[s]]]

\* DELETE FROM scd_subscriptions WHERE id = $1 AND owner = $2 AND implicit
\* AND 0 = ALL (SELECT COALESCE(COUNT(id),0) FROM scd_operations WHERE subscription_id = $1)
deleteImplicitSubscriptionQuery(d, sid, owner) ==
    LET count == Cardinality({i \in DOMAIN d.ops : d.ops[i].subscription_id = sid})
        gone(s) == /\ s = sid
                   /\ d.subs[s].owner = owner
                   /\ d.subs[s].implicit
                   /\ 0 = count
    IN [d EXCEPT !.subs = [s \in {t \in DOMAIN d.subs : ~gone(t)} |-> d.subs[s]]]

\* variant: the cells of the Operation are not read from the Cell Index
populateOperationCells_NoCells(d, o) == o

\* SELECT cell_id FROM scd_cells_operations WHERE operation_id = $1
populateOperationCells(d, o) ==
    [o EXCEPT !.Cells = {r.cell_id : r \in {x \in d.cells : x.operation_id = o.ID}}]

\* variant: SELECT without DISTINCT, one operation_id per matching cell row
RECURSIVE RowIds(_)
RowIds(rows) ==
    IF rows = {} THEN <<>>
    ELSE LET x == CHOOSE y \in rows : TRUE
         IN <<x.operation_id>> \o RowIds(rows \ {x})
uniqueOperations_NotDistinct(d, cids) == RowIds({x \in d.cells : x.cell_id \in cids})

\* SELECT DISTINCT operation_id FROM scd_cells_operations WHERE cell_id = ANY($1)
uniqueOperations(d, cids) ==
    IdSeq({r.operation_id : r \in {x \in d.cells : x.cell_id \in cids}})

\* variant: the bounds are compared with > and <, so that volumes that only
\* share a bound do not intersect
IntersectsVolume_Strict(row, lo, hi, st, en) ==
    /\ (row.altitude_upper = Null \/ lo = Null \/ row.altitude_upper[1] > lo[1])
    /\ (row.altitude_lower = Null \/ hi = Null \/ row.altitude_lower[1] < hi[1])
    /\ (row.ends_at = Null \/ st = Null \/ row.ends_at[1] > st[1])
    /\ (row.starts_at = Null \/ en = Null \/ row.starts_at[1] < en[1])

\* the WHERE clause of operationsIntersectingVolumeQuery on one row
IntersectsVolume(row, lo, hi, st, en) ==
    /\ CoalesceTrue(SqlGe(row.altitude_upper, lo))
    /\ CoalesceTrue(SqlLe(row.altitude_lower, hi))
    /\ CoalesceTrue(SqlGe(row.ends_at, st))
    /\ CoalesceTrue(SqlLe(row.starts_at, en))

\* scd_operations JOIN unique_operations ON id = operation_id WHERE ...:
\* the ids of the rows the query yields, one per joined pair
operationsIntersectingVolumeQuery(d, cids, lo, hi, st, en) ==
    LET Joined(id) == /\ id \in DOMAIN d.ops
                      /\ IntersectsVolume(d.ops[id], lo, hi, st, en)
    IN SelectSeq(uniqueOperations(d, cids), Joined)

\* --------------------------------------------------------- the handlers
\* What a handler hands back: the tables as its statements left them (d),
\* the error code, the Operation (Null or <<o>>), the Operations of a search
\* and the ids of the Subscriptions to notify.  "fail" numbers the statement
\* of the call that the backing store fails (0: none does).
Result(d, err, op, os, ss) == [db |-> d, err |-> err, op |-> op, ops |-> os, subs |-> ss]
Error(d, err) == Result(d, err, Null, <<>>, {})

\* Operation.ValidateTimeRange: an inverted start/end is rejected
ValidateTimeRange(o) ==
    ~(o.StartTime # Null /\ o.EndTime # Null /\ o.StartTime[1] > o.EndTime[1])

\* searchOperations; v4d.footprint is Null (no footprint) or <<cells>>
searchOperations(d, v4d, fail) ==
    IF v4d.footprint = Null THEN Error(d, BadRequest)
    ELSE LET cells == v4d.footprint[1] IN
         IF Cardinality(cells) = 0 THEN Error(d, BadRequest)
         ELSE IF fail = 1 THEN Error(d, Internal)
         ELSE Result(d, OK, Null,
                     fetchOperations(d, operationsIntersectingVolumeQuery(
                         d, cells, v4d.AltitudeLo, v4d.AltitudeHi, v4d.StartTime, v4d.EndTime)),
                     {})

\* SearchOperations
SearchOperations(d, v4d, fail) == searchOperations(d, v4d, fail)

\* GetOperation
GetOperation(d, id, fail) ==
    LET sub == fetchOperationByID(d, id) IN
    IF fail = 1 THEN Error(d, Internal)
    ELSE IF sub = <<>> THEN Error(d, NotFound)
    ELSE Result(d, OK, Some(sub[1]), <<>>, {})

\* pushOperation: the row upsert (statement 1), one cell upsert per cell
\* (statements 2..n+1), the left-over cell delete (n+2), the Subscription
\* lookup (n+3)
pushOperation(d, operation, ts, fail) ==
    LET cids == SortedSeq(operation.Cells)
        n == Len(cids)
        cells == operation.Cells
        d1 == upsertOperationsQuery(d, operation, ts)
        fetched == fetchOperationByID(d1, operation.ID)[1]
        op == [fetched EXCEPT !.Cells = cells]
        \* the tables after the first k iterations of the loop over cids
        RECURSIVE loop(_)
        loop(k) == IF k = 0 THEN d1
                   ELSE upsertCellsForOperationQuery(loop(k - 1), cids[k], op.ID)
        d3 == deleteLeftOverCellsForOperationQuery(loop(n), Range(cids), op.ID)
    IN IF fail = 1 THEN Error(d, Internal)
       ELSE IF fail \in 2..(n + 1) THEN Error(loop(fail - 2), Internal)
       ELSE IF fail = n + 2 THEN Error(loop(n), Internal)
       ELSE IF fail = n + 3 THEN Error(d3, Internal)
       ELSE Result(d3, OK, Some(op), <<>>,
                   fetchSubscriptionsForNotification(d3, Range(cids)))

\* variant: the owner of the row is not compared
OwnerDiffers_Never(old, owner) == FALSE

\* old.Owner != owner: the row is owned by another client
OwnerDiffers(old, owner) == old.Owner # owner

\* variant: the Versions are not compared
VersionStale_Never(operation, old) == FALSE

\* !operation.Version.Matches(old.Version): the caller's Version is stale
VersionStale(operation, old) == ~VersionMatches(operation.Version, old.Version)

\* DeleteOperation: fetch (statement 1), populateOperationCells (2), the
\* Subscription lookup (3), deleteQuery (4), deleteImplicitSubscriptionQuery (5)
DeleteOperation(d, id, owner, fail) ==
    LET fetched == fetchOperationByID(d, id) IN
    IF fail = 1 THEN Error(d, Internal)
    ELSE IF fetched = <<>> THEN Error(d, NotFound)
    ELSE IF OwnerDiffers(fetched[1], owner) THEN Error(d, PermissionDenied)
    ELSE IF fail = 2 THEN Error(d, Internal)
    ELSE LET old == populateOperationCells(d, fetched[1])
             subscriptions == fetchSubscriptionsForNotification(d, old.Cells)
             d4 == deleteQuery(d, id, owner)
             d5 == deleteImplicitSubscriptionQuery(d4, old.SubscriptionID, owner)
         IN IF fail = 3 THEN Error(d, Internal)
            ELSE IF fail = 4 THEN Error(d, Internal)
            ELSE IF fail = 5 THEN Error(d4, Internal)
            ELSE Result(d5, OK, Some(old), <<>>, subscriptions)

\* variant: the loop rejects the OVNs that match
RECURSIVE MissingOVN_Inverted(_, _)
MissingOVN_Inverted(operations, keyIdx) ==
    IF operations = <<>> THEN FALSE
    ELSE IF Head(operations).OVN \in keyIdx THEN TRUE
    ELSE MissingOVN_Inverted(Tail(operations), keyIdx)

\* the loop over the conflicting Operations: TRUE when some OVN is missing
\* from keyIdx; a matched OVN is deleted from keyIdx
RECURSIVE MissingOVN(_, _)
MissingOVN(operations, keyIdx) ==
    IF operations = <<>> THEN FALSE
    ELSE IF Head(operations).OVN \notin keyIdx THEN TRUE
    ELSE MissingOVN(Tail(operations), keyIdx \ {Head(operations).OVN})

\* variant: the OVNs are checked whatever the State
RequiresOVNs_Always(operation) == TRUE

\* switch operation.State: the OVNs are checked for Accepted and Activated
RequiresOVNs(operation) ==
    operation.State \in {OperationStateAccepted, OperationStateActivated}

\* variant: the owner of the row is compared before the Versions are
UpsertOperation_OwnerFirst(d, operation, key, ts, fail) ==
    LET old == fetchOperationByID(d, operation.ID) IN
    IF fail = 1 THEN Error(d, Internal)
    ELSE IF old # <<>> /\ OwnerDiffers(old[1], operation.Owner)
        THEN Error(d, PermissionDenied)
    ELSE IF old = <<>> /\ ~VersionEmpty(operation.Version) THEN Error(d, NotFound)
    ELSE IF old # <<>> /\ VersionEmpty(operation.Version) THEN Error(d, AlreadyExists)
    ELSE IF old # <<>> /\ VersionStale(operation, old[1]) THEN Error(d, VersionMismatch)
    ELSE IF ~ValidateTimeRange(operation) THEN Error(d, BadRequest)
    ELSE IF RequiresOVNs(operation)
        THEN LET found == searchOperations(d,
                              [footprint |-> Some(operation.Cells),
                               AltitudeLo |-> operation.AltitudeLower,
                               AltitudeHi |-> operation.AltitudeUpper,
                               StartTime |-> operation.StartTime,
                               EndTime |-> operation.EndTime], fail - 1)
             IN IF found.err # OK THEN Error(d, found.err)
                ELSE IF MissingOVN(found.ops, key) THEN Error(d, ErrMissingOVNs)
                ELSE pushOperation(d, operation, ts, fail - 2)
    ELSE pushOperation(d, operation, ts, fail - 1)

\* variant: the Operation is pushed before the OVNs are checked
UpsertOperation_PushFirst(d, operation, key, ts, fail) ==
    LET old == fetchOperationByID(d, operation.ID) IN
    IF fail = 1 THEN Error(d, Internal)
    ELSE IF old = <<>> /\ ~VersionEmpty(operation.Version) THEN Error(d, NotFound)
    ELSE IF old # <<>> /\ VersionEmpty(operation.Version) THEN Error(d, AlreadyExists)
    ELSE IF old # <<>> /\ VersionStale(operation, old[1]) THEN Error(d, VersionMismatch)
    ELSE IF old # <<>> /\ OwnerDiffers(old[1], operation.Owner)
        THEN Error(d, PermissionDenied)
    ELSE IF ~ValidateTimeRange(operation) THEN Error(d, BadRequest)
    ELSE IF RequiresOVNs(operation)
        THEN LET found == searchOperations(d,
                              [footprint |-> Some(operation.Cells),
                               AltitudeLo |-> operation.AltitudeLower,
                               AltitudeHi |-> operation.AltitudeUpper,
                               StartTime |-> operation.StartTime,
                               EndTime |-> operation.EndTime], fail - 1)
                 pushed == pushOperation(d, operation, ts, fail - 2)
             IN IF found.err # OK THEN Error(d, found.err)
                ELSE IF pushed.err # OK THEN pushed
                ELSE IF MissingOVN(found.ops, key) THEN Error(pushed.db, ErrMissingOVNs)
                ELSE pushed
    ELSE pushOperation(d, operation, ts, fail - 1)

\* UpsertOperation: fetch (statement 1), for Accepted/Activated the conflict
\* search (2), then the statements of pushOperation
UpsertOperation(d, operation, key, ts, fail) ==
    LET old == fetchOperationByID(d, operation.ID) IN
    IF fail = 1 THEN Error(d, Internal)
    ELSE IF old = <<>> /\ ~VersionEmpty(operation.Version) THEN Error(d, NotFound)
    ELSE IF old # <<>> /\ VersionEmpty(operation.Version) THEN Error(d, AlreadyExists)
    ELSE IF old # <<>> /\ VersionStale(operation, old[1]) THEN Error(d, VersionMismatch)
    ELSE IF old # <<>> /\ OwnerDiffers(old[1], operation.Owner)
        THEN Error(d, PermissionDenied)
    ELSE IF ~ValidateTimeRange(operation) THEN Error(d, BadRequest)
    ELSE IF RequiresOVNs(operation)
        THEN LET found == searchOperations(d,
                              [footprint |-> Some(operation.Cells),
                               AltitudeLo |-> operation.AltitudeLower,
                               AltitudeHi |-> operation.AltitudeUpper,
                               StartTime |-> operation.StartTime,
                               EndTime |-> operation.EndTime], fail - 1)
             IN IF found.err # OK THEN Error(d, found.err)
                ELSE IF MissingOVN(found.ops, key) THEN Error(d, ErrMissingOVNs)
                ELSE pushOperation(d, operation, ts, fail - 2)
    ELSE pushOperation(d, operation, ts, fail - 1)

\* ------------------------------------------------------------- requests
\* the 4D extents callers use: cells, altitude band, time window
Extent(cells, alo, ahi, st, en) ==
    [cells |-> cells, alo |-> alo, ahi |-> ahi, st |-> st, en |-> en]
EBase == Extent({10, 11}, Some(1), Some(1), Some(1), Some(1))
EUnbounded == Extent({10}, Null, Null, Null, Null)
EAbove == Extent({11}, Some(2), Some(2), Some(1), Some(1))
ELater == Extent({10}, Some(1), Some(1), Some(2), Some(2))
EInverted == Extent({10}, Some(1), Some(1), Some(2), Some(1))
EEmpty == Extent({}, Some(1), Some(1), Some(1), Some(1))
Extents == {EBase, EUnbounded, EAbove, ELater, EInverted, EEmpty}

\* the OVNs a caller may hold of the stored Operations: the current one of
\* each row, and an earlier one of each row that has been updated
KnownOVNs(d) ==
    {NewOVNFromTime(d.ops[i].updated_at, i) : i \in DOMAIN d.ops}
    \cup {NewOVNFromTime(d.ops[i].updated_at - 1, i) :
             i \in {j \in DOMAIN d.ops : d.ops[j].version > 1}}
KeySets(d) == {k \in SUBSET KnownOVNs(d) : Cardinality(k) <= 2}
Versions == 0..(MaxTime - 1)
FailPoints == 1..(Cardinality(CellIDs) + 4)

NoReq == [call |-> "", id |-> "", owner |-> "", version |-> 0, state |-> "",
          footprint |-> Null, alo |-> Null, ahi |-> Null, st |-> Null, en |-> Null,
          sub |-> "", key |-> {}]
NoRet == [err |-> "", op |-> Null, ops |-> <<>>, subs |-> {}, applied |-> FALSE]
NoSnap == [db |-> [ops |-> <<>>, cells |-> {}, subs |-> <<>>], tries |-> 0]

UpsertReq(id, owner, version, state, e, sub, key) ==
    [call |-> "Upsert", id |-> id, owner |-> owner, version |-> version, state |-> state,
     footprint |-> Some(e.cells), alo |-> e.alo, ahi |-> e.ahi, st |-> e.st, en |-> e.en,
     sub |-> sub, key |-> key]
DeleteReq(id, owner) == [NoReq EXCEPT !.call = "Delete", !.id = id, !.owner = owner]
GetReq(id) == [NoReq EXCEPT !.call = "Get", !.id = id]
SearchReq(footprint, e) ==
    [NoReq EXCEPT !.call = "Search", !.footprint = footprint,
                  !.alo = e.alo, !.ahi = e.ahi, !.st = e.st, !.en = e.en]

\* Upserts that vary who writes what record: every id, owner, Version and
\* Subscription, a valid and an inverted time range, an active and an
\* inactive State, no OVNs
OwnerUpserts ==
    {UpsertReq(id, owner, version, state, e, sub, {}) :
        id \in IDs, owner \in Owners, version \in Versions,
        state \in {OperationStateActivated, OperationStateEnded},
        e \in {EBase, EInverted}, sub \in SubIDs}

\* Upserts that vary where and when the Operation is and which OVNs the
\* caller holds: every id, Version, extent and key set, an active and an
\* inactive State, one owner
VolumeUpserts(d) ==
    {UpsertReq(id, "alice", version, state, e, "s1", key) :
        id \in IDs, version \in Versions,
        state \in {OperationStateAccepted, OperationStateEnded},
        e \in Extents, key \in KeySets(d)}

\* Upserts during which the backing store fails a statement
FailingUpserts ==
    {UpsertReq(id, owner, version, state, EBase, "s1", {}) :
        id \in IDs, owner \in Owners, version \in Versions,
        state \in {OperationStateActivated, OperationStateEnded}}

\* the Operation a caller passes to UpsertOperation
OperationOf(r) ==
    [ID |-> r.id, Owner |-> r.owner, Version |-> r.version,
     AltitudeLower |-> r.alo, AltitudeUpper |-> r.ahi,
     StartTime |-> r.st, EndTime |-> r.en, SubscriptionID |-> r.sub,
     OVN |-> Null, Cells |-> r.footprint[1], State |-> r.state]
Volume4DOf(r) ==
    [footprint |-> r.footprint, AltitudeLo |-> r.alo, AltitudeHi |-> r.ahi,
     StartTime |-> r.st, EndTime |-> r.en]

Handle(d, r, ts, fail) ==
    CASE r.call = "Upsert" -> UpsertOperation(d, OperationOf(r), r.key, ts, fail)
      [] r.call = "Delete" -> DeleteOperation(d, r.id, r.owner, fail)
      [] r.call = "Get" -> GetOperation(d, r.id, fail)
      [] r.call = "Search" -> SearchOperations(d, Volume4DOf(r), fail)

\* ------------------------------------------------------ the transaction
\* variant: no rollback, the statements of a failed call stay applied
Transact_NoRollback(d, res) == res.db

\* The caller runs each call as one transaction on s.q: the statements of a
\* call that returns an error are rolled back, those of a call that returns
\* no error are committed together.
Transact(d, res) == IF res.err = OK THEN res.db ELSE d

\* what the caller gets back; applied: the statements the call executed had
\* changed the tables when it returned
Returned(d, res) ==
    [err |-> res.err, op |-> res.op, ops |-> res.ops, subs |-> res.subs,
     applied |-> res.db # d]

\* the Version the latest successful upsert of each id returned, as the
\* caller c notes it when its call has returned
Observe(c) ==
    IF req[c].call = "Upsert" /\ ret[c].err = OK
    THEN [observed EXCEPT ![req[c].id] = ret[c].op[1].Version]
    ELSE observed

\* ---------------------------------------------------------------- actions
InitSubs ==
    [s \in SubIDs |->
        IF s = "s1" THEN [owner |-> "alice", implicit |-> TRUE, cells |-> {10}]
        ELSE [owner |-> "bob", implicit |-> FALSE, cells |-> {10, 11}]]

Init ==
    /\ ops = <<>>
    /\ cellsOps = {}
    /\ subs = InitSubs
    /\ now = 0
    /\ pc = [c \in Callers |-> "idle"]
    /\ req = [c \in Callers |-> NoReq]
    /\ ret = [c \in Callers |-> NoRet]
    /\ snap = [c \in Callers |-> NoSnap]
    /\ observed = [i \in IDs |-> 0]

Idle == \A c \in Callers : pc[c] = "idle"

\* one call of caller c, start to return, as one transaction; the store
\* fails statement "fail" of it (0: none)
Call(c, r, fail) ==
    LET res == Handle(DB, r, now + 1, fail)
        d == Transact(DB, res)
    IN /\ ops' = d.ops
       /\ cellsOps' = d.cells
       /\ subs' = d.subs
       /\ now' = IF r.call = "Upsert" /\ res.err = OK THEN now + 1 ELSE now
       /\ ret' = [ret EXCEPT ![c] = Returned(DB, res)]
       /\ pc' = [pc EXCEPT ![c] = "done"]
       /\ req' = [req EXCEPT ![c] = r]
       /\ snap' = [snap EXCEPT ![c] = [db |-> DB, tries |-> 0]]
       /\ UNCHANGED observed

CallUpsert ==
    /\ Idle
    /\ now < MaxTime
    /\ \E r \in OwnerUpserts \cup VolumeUpserts(DB) : Call("c1", r, 0)

\* an Upsert during which the backing store fails a statement
CallUpsertFailing ==
    /\ Idle
    /\ now < MaxTime
    /\ \E r \in FailingUpserts, fail \in FailPoints : Call("c1", r, fail)

CallDelete ==
    /\ Idle
    /\ \E id \in IDs, owner \in Owners, fail \in {0} \cup FailPoints :
          Call("c1", DeleteReq(id, owner), fail)

CallGet ==
    /\ Idle
    /\ \E id \in IDs, fail \in 0..1 : Call("c1", GetReq(id), fail)

CallSearch ==
    /\ Idle
    /\ \E e \in Extents, fail \in 0..1 :
        \/ Call("c1", SearchReq(Some(e.cells), e), fail)
        \/ Call("c1", SearchReq(Null, e), fail)

Return ==
    /\ \E c \in Callers :
        /\ pc[c] = "done"
        /\ pc' = [pc EXCEPT ![c] = "idle"]
        /\ req' = [req EXCEPT ![c] = NoReq]
        /\ ret' = [ret EXCEPT ![c] = NoRet]
        /\ snap' = [snap EXCEPT ![c] = NoSnap]
        /\ observed' = Observe(c)
    /\ UNCHANGED <<ops, cellsOps, subs, now>>

Next == CallUpsert \/ CallUpsertFailing \/ CallDelete \/ CallGet \/ CallSearch \/ Return

Spec == Init /\ [][Next]_vars

\* --------------------------------------------- concurrent transactions
\* Two callers upsert at the same time, each in a transaction of the backing
\* store: it reads the tables as they were when it began, its writes reach
\* the tables together when it commits, and the store serializes writers of
\* one scd_operations row (a transaction whose row another transaction has
\* written since it began is run again); writers of different rows are not
\* serialized against each other.
ConcurrentUpserts(d) ==
    {UpsertReq(id, "alice", version, state, e, "s1", key) :
        id \in IDs, version \in 0..1,
        state \in {OperationStateAccepted, OperationStateEnded},
        e \in {EBase},
        key \in {k \in KeySets(d) : Cardinality(k) <= 1}}

\* the row of id differs between the tables s and d
RowChanged(s, d, id) ==
    \/ (id \in DOMAIN s.ops) # (id \in DOMAIN d.ops)
    \/ id \in DOMAIN s.ops /\ id \in DOMAIN d.ops /\ s.ops[id] # d.ops[id]

\* the tables d with the row and the cells of id as the transaction left
\* them in its own view loc
Merge(d, loc, id) ==
    [ops |-> [i \in DOMAIN d.ops \cup {id} |-> IF i = id THEN loc.ops[id] ELSE d.ops[i]],
     cells |-> {x \in d.cells : x.operation_id # id}
                 \cup {x \in loc.cells : x.operation_id = id},
     subs |-> d.subs]

\* what the transaction of caller c returns, run on the tables it began with
Outcome(c) == Handle(snap[c].db, req[c], now + 1, 0)

\* another transaction has committed the row c is about to write
WriteConflict(c) == Outcome(c).err = OK /\ RowChanged(snap[c].db, DB, req[c].id)

BeginUpsert ==
    \E c \in Callers :
        /\ pc[c] = "idle"
        /\ \E r \in ConcurrentUpserts(DB) :
              /\ req' = [req EXCEPT ![c] = r]
              /\ snap' = [snap EXCEPT ![c] = [db |-> DB, tries |-> 0]]
        /\ pc' = [pc EXCEPT ![c] = "tx"]
        /\ UNCHANGED <<ops, cellsOps, subs, now, ret, observed>>

Commit ==
    \E c \in Callers :
        /\ pc[c] = "tx"
        /\ ~WriteConflict(c)
        /\ LET res == Outcome(c)
               d == IF res.err = OK THEN Merge(DB, res.db, req[c].id) ELSE DB
           IN /\ res.err = OK => now < MaxTime
              /\ ops' = d.ops
              /\ cellsOps' = d.cells
              /\ subs' = d.subs
              /\ now' = IF res.err = OK THEN now + 1 ELSE now
              /\ ret' = [ret EXCEPT ![c] = Returned(snap[c].db, res)]
        /\ pc' = [pc EXCEPT ![c] = "done"]
        /\ UNCHANGED <<req, snap, observed>>

Restart ==
    \E c \in Callers :
        /\ pc[c] = "tx"
        /\ WriteConflict(c)
        /\ snap' = [snap EXCEPT ![c] = [db |-> DB, tries |-> @.tries + 1]]
        /\ UNCHANGED <<ops, cellsOps, subs, now, pc, req, ret, observed>>

NextConc == BeginUpsert \/ Commit \/ Restart \/ Return

SpecConc == Init /\ [][NextConc]_vars

\* ================================================================ claims
\* vocabulary of the claims: a completed call of caller c, the tables it
\* ran against, and the stored Operations its volume intersects
Done(c, call) == pc[c] = "done" /\ req[c].call = call
Pre(c) == snap[c].db
Stored(d, id) == id \in DOMAIN d.ops
CellsOf(cells, id) == {x.cell_id : x \in {y \in cells : y.operation_id = id}}
OVNOf(d, id) == NewOVNFromTime(d.ops[id].updated_at, id)
Overlaps(row, r) ==
    /\ (row.altitude_upper = Null \/ r.alo = Null \/ row.altitude_upper[1] >= r.alo[1])
    /\ (row.altitude_lower = Null \/ r.ahi = Null \/ row.altitude_lower[1] <= r.ahi[1])
    /\ (row.ends_at = Null \/ r.st = Null \/ row.ends_at[1] >= r.st[1])
    /\ (row.starts_at = Null \/ r.en = Null \/ row.starts_at[1] <= r.en[1])
Intersecting(d, r) ==
    {i \in DOMAIN d.ops : /\ CellsOf(d.cells, i) \cap r.footprint[1] # {}
                          /\ Overlaps(d.ops[i], r)}
Unacknowledged(d, r) == {i \in Intersecting(d, r) : OVNOf(d, i) \notin r.key}
Active(r) == r.state \in {OperationStateAccepted, OperationStateActivated}
\* the upsert r gets past the version, owner and time-range checks on d
PassesChecks(d, r) ==
    /\ IF Stored(d, r.id)
       THEN r.version = d.ops[r.id].version /\ r.owner = d.ops[r.id].owner
       ELSE r.version = 0
    /\ ~(r.st # Null /\ r.en # Null /\ r.st[1] > r.en[1])

\* C1 (as amended): every successful UpsertOperation stores and returns the
\* Version that is exactly 1 more than the Version stored for that ID when
\* it ran, and 1 when no row was stored (first write, or first write after a
\* DeleteOperation of that ID).
C1_VersionPlusOne ==
    \A c \in Callers :
        (Done(c, "Upsert") /\ ret[c].err = OK) =>
            LET id == req[c].id
                old == IF Stored(Pre(c), id) THEN Pre(c).ops[id].version ELSE 0
            IN /\ Stored(DB, id)
               /\ ops[id].version = old + 1
               /\ ret[c].op[1].Version = old + 1

\* C1 witness: an update of an existing row has returned Version 2
C1_Witness ==
    \E c \in Callers :
        /\ Done(c, "Upsert") /\ ret[c].err = OK
        /\ Stored(Pre(c), req[c].id)
        /\ ret[c].op[1].Version = 2

\* C1 (original): over all successful upserts of one ID, interleaved with
\* any other store operations, each returns the Version of the previous
\* successful upsert of that ID plus 1, the first one Version 1.
C1_Original ==
    \A c \in Callers :
        (Done(c, "Upsert") /\ ret[c].err = OK) =>
            ret[c].op[1].Version = observed[req[c].id] + 1

\* C2 (as amended): with a row stored under Owner X, an UpsertOperation or
\* DeleteOperation for that ID by another Owner never succeeds and changes
\* nothing: DeleteOperation fails with PermissionDenied; UpsertOperation
\* fails with AlreadyExists when its Version is empty, VersionMismatch when
\* its Version does not match the stored one, PermissionDenied when it does.
C2_OtherOwnerFails ==
    \A c \in Callers :
        LET r == req[c]
            d == Pre(c)
        IN (/\ pc[c] = "done" /\ r.call \in {"Upsert", "Delete"}
            /\ Stored(d, r.id) /\ d.ops[r.id].owner # r.owner
            /\ ret[c].err # Internal) =>
               /\ DB = d
               /\ ret[c].err =
                    IF r.call = "Delete" THEN PermissionDenied
                    ELSE IF r.version = 0 THEN AlreadyExists
                    ELSE IF r.version # d.ops[r.id].version THEN VersionMismatch
                    ELSE PermissionDenied

\* C2 witness: an upsert by another Owner with the matching Version was
\* refused with PermissionDenied
C2_Witness ==
    \E c \in Callers :
        /\ Done(c, "Upsert")
        /\ Stored(Pre(c), req[c].id)
        /\ Pre(c).ops[req[c].id].owner # req[c].owner
        /\ Pre(c).ops[req[c].id].version = req[c].version
        /\ ret[c].err = PermissionDenied

\* C2 (original): with a row stored under Owner X, an UpsertOperation or
\* DeleteOperation for that ID by another Owner fails with PermissionDenied
\* whatever Version the caller supplied.
C2_Original ==
    \A c \in Callers :
        (/\ pc[c] = "done" /\ req[c].call \in {"Upsert", "Delete"}
         /\ Stored(Pre(c), req[c].id)
         /\ Pre(c).ops[req[c].id].owner # req[c].owner
         /\ ret[c].err # Internal) =>
            ret[c].err = PermissionDenied

\* C3: an UpsertOperation to Accepted or Activated fails with MissingOVNs
\* exactly when some stored Operation intersecting its cells, altitude band
\* and time window has a current OVN outside the key set (given that it got
\* past the version, owner and time-range checks and the store did not
\* fail); it never succeeds with such an Operation unacknowledged, and OVNs
\* of the key set that match no intersecting Operation change nothing.
C3_ConflictGating ==
    \A c \in Callers :
        LET r == req[c]
            d == Pre(c)
        IN (Done(c, "Upsert") /\ Active(r) /\ ret[c].err # Internal) =>
              /\ ret[c].err = ErrMissingOVNs => Unacknowledged(d, r) # {}
              /\ ret[c].err = OK => Unacknowledged(d, r) = {}
              /\ PassesChecks(d, r) =>
                    /\ Unacknowledged(d, r) # {} => ret[c].err = ErrMissingOVNs
                    /\ (Unacknowledged(d, r) = {} /\ r.footprint[1] # {})
                          => ret[c].err = OK

\* C3 witness: an active upsert intersecting a stored Operation succeeded
\* with that Operation's OVN and a further, unmatched OVN in the key set
C3_Witness ==
    \E c \in Callers :
        /\ Done(c, "Upsert") /\ Active(req[c]) /\ ret[c].err = OK
        /\ Intersecting(Pre(c), req[c]) # {}
        /\ \E o \in req[c].key :
              o \notin {OVNOf(Pre(c), i) : i \in Intersecting(Pre(c), req[c])}

\* C6: after a successful UpsertOperation the Cell Index rows of the
\* Operation's ID are exactly the Cells supplied in that upsert.
C6_CellIndexEqualsCells ==
    \A c \in Callers :
        (Done(c, "Upsert") /\ ret[c].err = OK) =>
            CellsOf(cellsOps, req[c].id) = req[c].footprint[1]

\* C6 witness: a successful upsert of an ID that had a Cell Index row for a
\* cell outside the new Cells
C6_Witness ==
    \E c \in Callers :
        /\ Done(c, "Upsert") /\ ret[c].err = OK
        /\ CellsOf(Pre(c).cells, req[c].id) \ req[c].footprint[1] # {}

C8_ImplicitSubscriptionCascade ==
    \A c \in Callers :
        (Done(c, "Delete") /\ ret[c].err = OK) =>
            LET d == Pre(c)
                id == req[c].id
                sid == d.ops[id].subscription_id
                last(s) == \A j \in DOMAIN d.ops \ {id} : d.ops[j].subscription_id # s
            IN /\ DOMAIN subs \subseteq DOMAIN d.subs
               /\ \A s \in DOMAIN d.subs :
                     /\ s \notin DOMAIN subs <=>
                           (/\ s = sid
                            /\ d.subs[s].implicit
                            /\ d.subs[s].owner = req[c].owner
                            /\ last(s))
                     /\ s \in DOMAIN subs => subs[s] = d.subs[s]

\* C8 witness: deleting the last Operation that referenced an implicit
\* Subscription of the deleting owner removed that Subscription
C8_Witness ==
    \E c \in Callers :
        /\ Done(c, "Delete") /\ ret[c].err = OK
        /\ Pre(c).ops[req[c].id].subscription_id \in DOMAIN Pre(c).subs
        /\ Pre(c).ops[req[c].id].subscription_id \notin DOMAIN subs

C10_SearchExact ==
    \A c \in Callers :
        (Done(c, "Search") /\ ret[c].err = OK) =>
            LET found == ret[c].ops IN
            /\ {found[i].ID : i \in DOMAIN found} = Intersecting(Pre(c), req[c])
            /\ Len(found) = Cardinality(Intersecting(Pre(c), req[c]))
            /\ \A i \in DOMAIN found :
                  /\ found[i].Version = ops[found[i].ID].version
                  /\ found[i].Owner = ops[found[i].ID].owner
                  /\ found[i].OVN = OVNOf(DB, found[i].ID)

\* C10 witness: a search returned an Operation two of whose cells are in
\* the covering, and left out a stored Operation
C10_Witness ==
    \E c \in Callers :
        /\ Done(c, "Search") /\ ret[c].err = OK
        /\ \E i \in DOMAIN ret[c].ops :
              Cardinality(CellsOf(cellsOps, ret[c].ops[i].ID) \cap req[c].footprint[1]) >= 2
        /\ \E j \in DOMAIN ops : \A i \in DOMAIN ret[c].ops : ret[c].ops[i].ID # j

\* the row a successful upsert of caller c wrote is the row stored now
WroteStoredRow(c) ==
    /\ Stored(DB, req[c].id)
    /\ ops[req[c].id].version = ret[c].op[1].Version
    /\ OVNOf(DB, req[c].id) = ret[c].op[1].OVN

C5_OneOfTwoOverlappingFails ==
    \A c, e \in Callers :
        (/\ c # e /\ Done(c, "Upsert") /\ Done(e, "Upsert")
         /\ req[c].id # req[e].id
         /\ Active(req[c]) /\ Active(req[e])
         /\ req[c].footprint[1] \cap req[e].footprint[1] # {}
         /\ Overlaps([altitude_lower |-> req[c].alo, altitude_upper |-> req[c].ahi,
                      starts_at |-> req[c].st, ends_at |-> req[c].en], req[e])
         /\ ret[c].err = OK /\ ret[e].err = OK
         /\ WroteStoredRow(c) /\ WroteStoredRow(e)) =>
            \/ ret[c].op[1].OVN \in req[e].key
            \/ ret[e].op[1].OVN \in req[c].key

\* the call of caller e read the row that the successful upsert of caller c
\* wrote
RanAfter(e, c) ==
    /\ Stored(Pre(e), req[c].id)
    /\ Pre(e).ops[req[c].id].version = ret[c].op[1].Version

\* C11: after a successful update of Operation A, an upsert of another
\* Operation B to Accepted or Activated that overlaps A and supplies no OVN
\* but the one A had before the update fails with MissingOVNs.
C11_StaleOVNRejected ==
    \A c, e \in Callers :
        (/\ c # e /\ Done(c, "Upsert") /\ Done(e, "Upsert")
         /\ ret[c].err = OK /\ Stored(Pre(c), req[c].id)
         /\ req[e].id # req[c].id
         /\ RanAfter(e, c)
         /\ Active(req[e]) /\ PassesChecks(Pre(e), req[e])
         /\ req[c].id \in Intersecting(Pre(e), req[e])
         /\ req[e].key \subseteq {OVNOf(Pre(c), req[c].id)}
         /\ ret[e].err # Internal) =>
            ret[e].err = ErrMissingOVNs

\* C11 witness: A was updated, then B was upserted with the OVN A had
\* before the update as its only key, and was refused
C11_Witness ==
    \E c, e \in Callers :
        /\ c # e /\ Done(c, "Upsert") /\ Done(e, "Upsert")
        /\ ret[c].err = OK /\ Stored(Pre(c), req[c].id)
        /\ req[e].id # req[c].id
        /\ RanAfter(e, c)
        /\ Active(req[e])
        /\ req[e].key = {OVNOf(Pre(c), req[c].id)}
        /\ ret[e].err = ErrMissingOVNs

\* C12: an UpsertOperation whose Version disagrees with the stored record
\* fails: NotFound when no row is stored and the Version is not empty,
\* AlreadyExists when a row is stored and the Version is empty,
\* VersionMismatch when a row is stored and the Version is not the stored one.
C12_VersionMustAgree ==
    \A c \in Callers :
        (Done(c, "Upsert") /\ ret[c].err # Internal) =>
            LET id == req[c].id
                v == req[c].version
            IN /\ (~Stored(Pre(c), id) /\ v # 0) => ret[c].err = NotFound
               /\ (Stored(Pre(c), id) /\ v = 0) => ret[c].err = AlreadyExists
               /\ (Stored(Pre(c), id) /\ v # 0 /\ v # Pre(c).ops[id].version)
                     => ret[c].err = VersionMismatch

\* C12 witness: Version 1 is supplied again after the update that made the
\* stored Version 2, and the call is refused with VersionMismatch
C12_Witness ==
    \E c \in Callers :
        /\ Done(c, "Upsert")
        /\ Stored(Pre(c), req[c].id)
        /\ Pre(c).ops[req[c].id].version = 2
        /\ req[c].version = 1
        /\ req[c].owner = Pre(c).ops[req[c].id].owner
        /\ ret[c].err = VersionMismatch

NotFoundCase(d, r) == ~Stored(d, r.id) /\ r.version # 0
AlreadyExistsCase(d, r) == Stored(d, r.id) /\ r.version = 0
VersionMismatchCase(d, r) == Stored(d, r.id) /\ r.version # d.ops[r.id].version
PermissionDeniedCase(d, r) == Stored(d, r.id) /\ r.owner # d.ops[r.id].owner
TimeRangeCase(r) == r.st # Null /\ r.en # Null /\ r.st[1] > r.en[1]
MissingOVNsCase(d, r) == Active(r) /\ Unacknowledged(d, r) # {}

\* the error of the first check, in the stated order, that r fails on d
FirstFailure(d, r) ==
    IF NotFoundCase(d, r) THEN NotFound
    ELSE IF AlreadyExistsCase(d, r) THEN AlreadyExists
    ELSE IF VersionMismatchCase(d, r) THEN VersionMismatch
    ELSE IF PermissionDeniedCase(d, r) THEN PermissionDenied
    ELSE IF TimeRangeCase(r) THEN BadRequest
    ELSE IF MissingOVNsCase(d, r) THEN ErrMissingOVNs
    ELSE OK

\* C14: an UpsertOperation returns the error of the first check it fails,
\* in the order NotFound, AlreadyExists, VersionMismatch, PermissionDenied,
\* time range (BadRequest), OVNs (MissingOVNs), and has written nothing when
\* it returns one of them.
C14_ValidationOrder ==
    \A c \in Callers :
        (Done(c, "Upsert") /\ ret[c].err # Internal) =>
            LET first == FirstFailure(Pre(c), req[c]) IN
            /\ first # OK => (ret[c].err = first /\ ~ret[c].applied)
            /\ (first = OK /\ ~(Active(req[c]) /\ req[c].footprint[1] = {}))
                  => ret[c].err = OK

\* C14 witness: an upsert that fails the Version, owner, time-range and OVN
\* checks together is refused with VersionMismatch
C14_Witness ==
    \E c \in Callers :
        /\ Done(c, "Upsert")
        /\ VersionMismatchCase(Pre(c), req[c])
        /\ PermissionDeniedCase(Pre(c), req[c])
        /\ TimeRangeCase(req[c])
        /\ MissingOVNsCase(Pre(c), req[c])
        /\ ret[c].err = VersionMismatch

\* C15: the OVN a read returns for an Operation is the one derived from the
\* updated_at and the ID of its stored row, whichever call reads it, and the
\* OVN a successful update returns is the one of the row it wrote and differs
\* from the OVN the row had before.
C15_OVNFromTimestampAndID ==
    \A c \in Callers :
        /\ (Done(c, "Get") /\ ret[c].err = OK) =>
              ret[c].op[1].OVN = NewOVNFromTime(ops[req[c].id].updated_at, req[c].id)
        /\ (Done(c, "Search") /\ ret[c].err = OK) =>
              \A i \in DOMAIN ret[c].ops :
                  ret[c].ops[i].OVN =
                      NewOVNFromTime(ops[ret[c].ops[i].ID].updated_at, ret[c].ops[i].ID)
        /\ (Done(c, "Upsert") /\ ret[c].err = OK) =>
              /\ ret[c].op[1].OVN = OVNOf(DB, req[c].id)
              /\ Stored(Pre(c), req[c].id) => ret[c].op[1].OVN # OVNOf(Pre(c), req[c].id)

\* C15 witness: a successful update of an existing Operation has returned
\* an OVN other than the one the Operation had
C15_Witness ==
    \E c \in Callers :
        /\ Done(c, "Upsert") /\ ret[c].err = OK
        /\ Stored(Pre(c), req[c].id)
        /\ ret[c].op[1].OVN # OVNOf(Pre(c), req[c].id)
        /\ ret[c].op[1].Version = 2

\* C16: an UpsertOperation whose State is neither Accepted nor Activated and
\* that passes the version, owner and time-range checks succeeds, whichever
\* stored Operations overlap it and whatever its key set.
C16_InactiveSkipsOVNs ==
    \A c \in Callers :
        (/\ Done(c, "Upsert") /\ ~Active(req[c])
         /\ PassesChecks(Pre(c), req[c])
         /\ ret[c].err # Internal) =>
            /\ ret[c].err = OK
            /\ Stored(DB, req[c].id)

\* C16 witness: an Ended Operation was written over another stored
\* Operation it overlaps, with no OVN of that one in the key set
C16_Witness ==
    \E c \in Callers :
        /\ Done(c, "Upsert") /\ ~Active(req[c])
        /\ \E i \in Unacknowledged(Pre(c), req[c]) : i # req[c].id
        /\ ret[c].err = OK

\* C17: a successful UpsertOperation returns the Subscriptions the reader
\* finds for the cells of its input; a successful DeleteOperation returns
\* the Subscriptions the reader finds, before the delete, for the cells the
\* Cell Index held for the ID, with the Operation as it was stored carrying
\* those cells.
C17_NotificationSet ==
    \A c \in Callers :
        /\ (Done(c, "Upsert") /\ ret[c].err = OK) =>
              ret[c].subs = fetchSubscriptionsForNotification(Pre(c), req[c].footprint[1])
        /\ (Done(c, "Delete") /\ ret[c].err = OK) =>
              LET id == req[c].id
                  cells == CellsOf(Pre(c).cells, id)
              IN /\ ret[c].subs = fetchSubscriptionsForNotification(Pre(c), cells)
                 /\ ret[c].op[1].Cells = cells
                 /\ ret[c].op[1].ID = id
                 /\ ret[c].op[1].Version = Pre(c).ops[id].version
                 /\ ret[c].op[1].OVN = OVNOf(Pre(c), id)

\* C17 witness: a delete has returned, among the Subscriptions to notify,
\* the implicit Subscription that it then removed
C17_Witness ==
    \E c \in Callers :
        /\ Done(c, "Delete") /\ ret[c].err = OK
        /\ \E s \in ret[c].subs : s \notin DOMAIN subs
        /\ ret[c].op[1].Cells # {}

\* C18: an update of a stored Operation to Accepted or Activated whose new
\* extent intersects its own stored row, and that passes the version, owner
\* and time-range checks, fails with MissingOVNs when the key set lacks the
\* Operation's own current OVN, and succeeds when the key set holds it and
\* the OVN of every other stored Operation the extent intersects.
C18_SelfAcknowledgment ==
    \A c \in Callers :
        (/\ Done(c, "Upsert") /\ Active(req[c])
         /\ Stored(Pre(c), req[c].id)
         /\ PassesChecks(Pre(c), req[c])
         /\ req[c].id \in Intersecting(Pre(c), req[c])
         /\ ret[c].err # Internal) =>
            /\ OVNOf(Pre(c), req[c].id) \notin req[c].key => ret[c].err = ErrMissingOVNs
            /\ Unacknowledged(Pre(c), req[c]) = {} => ret[c].err = OK

\* C18 witness: an update that intersects no stored Operation but the one
\* it updates was refused for lack of that Operation's own OVN
C18_Witness ==
    \E c \in Callers :
        /\ Done(c, "Upsert") /\ Active(req[c])
        /\ Stored(Pre(c), req[c].id)
        /\ Intersecting(Pre(c), req[c]) = {req[c].id}
        /\ OVNOf(Pre(c), req[c].id) \notin req[c].key
        /\ ret[c].err = ErrMissingOVNs

\* C19: a stored Operation that was written with a State other than
\* Accepted or Activated is acknowledged like any other: a later upsert to
\* Accepted or Activated that intersects it, passes the version, owner and
\* time-range checks and lacks its OVN fails with MissingOVNs.
C19_StateNotPersisted ==
    \A c, e \in Callers :
        (/\ c # e /\ Done(c, "Upsert") /\ Done(e, "Upsert")
         /\ ret[c].err = OK /\ ~Active(req[c])
         /\ RanAfter(e, c)
         /\ Active(req[e]) /\ PassesChecks(Pre(e), req[e])
         /\ req[c].id \in Intersecting(Pre(e), req[e])
         /\ OVNOf(Pre(e), req[c].id) \notin req[e].key
         /\ ret[e].err # Internal) =>
            ret[e].err = ErrMissingOVNs

\* C19 witness: an Operation was written as Ended, and a later upsert of
\* another Operation to Accepted over it, holding no OVN, was refused
C19_Witness ==
    \E c, e \in Callers :
        /\ c # e /\ Done(c, "Upsert") /\ Done(e, "Upsert")
        /\ ret[c].err = OK /\ req[c].state = OperationStateEnded
        /\ RanAfter(e, c)
        /\ req[e].id # req[c].id
        /\ req[e].state = OperationStateAccepted
        /\ Intersecting(Pre(e), req[e]) = {req[c].id}
        /\ req[e].key = {}
        /\ ret[e].err = ErrMissingOVNs

\* the errors by which a call refuses its input
ValidationErrors ==
    {NotFound, AlreadyExists, VersionMismatch, PermissionDenied, BadRequest, ErrMissingOVNs}

\* C20: an UpsertOperation or DeleteOperation that returns NotFound,
\* AlreadyExists, VersionMismatch, PermissionDenied, BadRequest or
\* MissingOVNs has executed no statement that changes a table, and the three
\* tables are as they were; a GetOperation or SearchOperations never changes
\* them, whatever it returns.
C20_FailedCallsChangeNothing ==
    \A c \in Callers :
        /\ ((Done(c, "Upsert") \/ Done(c, "Delete")) /\ ret[c].err \in ValidationErrors) =>
              (~ret[c].applied /\ DB = Pre(c))
        /\ (Done(c, "Get") \/ Done(c, "Search")) =>
              (~ret[c].applied /\ DB = Pre(c))

\* C20 witness: an upsert over a stored Operation was refused with
\* MissingOVNs, the last check before the write
C20_Witness ==
    \E c \in Callers :
        /\ Done(c, "Upsert")
        /\ ret[c].err = ErrMissingOVNs
        /\ ops # <<>> /\ cellsOps # {}
        /\ DB = Pre(c)

\* the Cell Index rows of the Operation id in the tables d
CellRowsOf(d, id) == {x \in d.cells : x.operation_id = id}

\* C21: a successful UpsertOperation or DeleteOperation on an ID leaves the
\* scd_operations row and the Cell Index rows of every other ID as they
\* were.
C21_OtherOperationsUnchanged ==
    \A c \in Callers :
        ((Done(c, "Upsert") \/ Done(c, "Delete")) /\ ret[c].err = OK) =>
            \A i \in IDs \ {req[c].id} :
                /\ Stored(DB, i) = Stored(Pre(c), i)
                /\ Stored(DB, i) => ops[i] = Pre(c).ops[i]
                /\ CellRowsOf(DB, i) = CellRowsOf(Pre(c), i)

\* C21 witness: an update has shrunk the footprint of its Operation, so the
\* left-over delete removed rows, while another Operation holds a row in a
\* cell that the update left
C21_Witness ==
    \E c \in Callers :
        /\ Done(c, "Upsert") /\ ret[c].err = OK
        /\ \E x \in CellRowsOf(Pre(c), req[c].id) :
              /\ x.cell_id \notin req[c].footprint[1]
              /\ \E y \in cellsOps : y.operation_id # req[c].id /\ y.cell_id = x.cell_id
====
